---- MODULE Spec2Model ----
(***************************************************************************)
(* Readiness signalling of user_pods_k8s_backend: util.ReadyChannel, the   *)
(* combinator built on it, and the watch sessions of k8sclient.WatchFor.    *)
(*                                                                          *)
(* Time is a discrete clock `now`.  Goroutine steps take no time: the clock *)
(* advances only when no goroutine has an enabled step (maximal progress),  *)
(* so "at the timeout" means "while now equals the timeout".                *)
(***************************************************************************)
EXTENDS Naturals, Integers, Sequences, FiniteSets, TLC

\* ---- bounds of the model ------------------------------------------------
MaxTimeout == 2     \* timeouts are drawn from 1..MaxTimeout
MaxSends == 2       \* Send calls of the event source on the observed signal
MaxCalls == 2       \* Receive calls per receiving goroutine
NReceivers == 2     \* goroutines calling Receive directly

MaxEvents == 2      \* events the control plane reports per watch session

MaxIdLen == 3       \* user identifiers have at most MaxIdLen characters

MaxOver == 1        \* files in a pod are up to MaxOver bytes longer than the byte limit

MaxOps == 1         \* cache operations each Pod value starts

MaxTime == MaxTimeout + 1         \* the clock stops one tick after the last timeout

\* ---- program constants --------------------------------------------------
ChanCap == 1        \* make(chan bool, 1)
tokenByteLimit == 4096   \* const tokenByteLimit
MaxAttempts == 10        \* for i := 0; i < 10; i++

Inputs == {"pv", "pvc", "pod"}   \* the input signals of the combinator
Agg == "aggregate"                        \* the aggregate (output) signal
Chans == Inputs \cup {Agg}
RC == Agg                         \* the signal observed by the receiver goroutines
Receivers == 1..NReceivers
Comb == NReceivers + 1            \* the goroutine running CombineReadyChannels
Threads == Receivers \cup {Comb}

VARIABLES
    now,          \* the clock
    timeout,      \* timeout[c]: the duration given to NewReadyChannel
    ch,           \* ReadyChannel.ch: the buffered channel's content
    receivedYet,  \* ReadyChannel.receivedYet
    firstValue,   \* ReadyChannel.firstValue
    mutex,        \* ReadyChannel.mutex: TRUE while locked
    timer,        \* the goroutine started by NewReadyChannel: off/sleep/done
    extpc,        \* the event source of a signal: idle, or inside Send
    extval,       \* the value the event source is sending
    nsent,        \* Send calls the event source has completed
    tpc,          \* position of a goroutine inside Receive: idle/lock/recv/store/ret
    tch,          \* the signal a goroutine is receiving from
    tval,         \* Receive's local `value` / its return value
    tstart,       \* clock value at which the goroutine called Receive
    ncalls,       \* Receive calls a receiver goroutine has completed
    results,      \* history: the values Receive has returned on a signal
    first,        \* history: <<value, time, sender>> of the first Send on a signal
    inputChannels,  \* CombineReadyChannels: its list of input signals
    cpc,          \* position of the combinator: off/loop/recv/send/done
    cidx,         \* index of the range loop of ReceiveReadyChannels
    output,       \* ReceiveReadyChannels: its local `output`
    combAt,       \* history: <<time>> at which ReceiveReadyChannels returned
    resourceType, \* WatchFor: its resourceType argument
    signalFunc,   \* WatchFor: its signalFunc argument
    werr,         \* WatchFor: err != nil after the switch
    wlog,         \* WatchFor: the error has been printed
    wpc,          \* position of the goroutine in WatchFor: off/call/fail/range/returned
    afterFunc,    \* the timer of time.AfterFunc: off/armed/done
    stopped,      \* watcher.Stop() has been called
    closed,       \* watcher.ResultChan() is closed
    nemit,        \* events the range loop has received
    ntrue,        \* history: TrySend(ch, true) calls of the classifier
    userID,       \* the identifiers NewUser is called with
    user,         \* the User values NewUser returned
    pvName,       \* the results of GetStoragePVName
    storage,      \* the results of GetTargetStoragePV and GetTargetStoragePVC
    annotations,  \* p.Object.ObjectMeta.Annotations of the pod being filled
    oneTry,       \* fillAllTmpFiles: its argument
    fpc,          \* position in fillAllTmpFiles: off/call/key/once/loop/try/sleep/after/returned
    toCopy,       \* fillAllTmpFiles: its local toCopy
    fidx,         \* index of the loop over toCopy
    fi,           \* the loop variable i of the retry loop
    ferr,         \* fillAllTmpFiles: its local err (<<>> is nil)
    nattempt,     \* history: getTmpFile calls per key
    nsleep,       \* history: time.Sleep(time.Second) calls per key
    nlog,         \* history: lines fillAllTmpFiles printed per key
    succAt,       \* history: number of the first attempt that succeeded (0: none)
    firstGood,    \* history: what the first successful read of a key returned
    lastRead,     \* history: <<stdout, value>> of the last successful getTmpFile
    cache,        \* p.cache of each Pod value
    pname,        \* p.Object.Name of each Pod value
    files,        \* the cache directory: file name -> <<>> (absent) or <<content>>
    pop,          \* the operation a Pod value is in: none/save/load/info
    ppc,          \* position inside the operation
    perr,         \* the error the operation returned (<<>> is nil)
    pinfo,        \* the PodInfo GetPodInfo returned (<<>>: none yet)
    buf,          \* savePodCache: the bytes buffer b
    nops,         \* operations a Pod value has started
    after,        \* history: the saves that had returned when the operation began
    lastWriter,   \* history: the Pod value whose WriteFile came last (0: none)
    fileAt        \* history: the pod's cache file when the operation began

sigvars == <<ch, receivedYet, firstValue, mutex>>
extvars == <<extpc, extval, nsent>>
combvars == <<inputChannels, cpc, cidx, output, combAt>>
watchvars == <<resourceType, signalFunc, werr, wlog, wpc, afterFunc, stopped,
               closed, nemit, ntrue>>

uservars == <<userID, user, pvName, storage>>
fillvars == <<annotations, oneTry, fpc, toCopy, fidx, fi, ferr, nattempt, nsleep,
              nlog, succAt, firstGood, lastRead>>
cachevars == <<cache, pname, files, pop, ppc, perr, pinfo, buf, nops, after, lastWriter,
               fileAt>>
podvars == <<uservars, fillvars, cachevars>>

\* the state of the readiness signalling
sigstate == <<now, timeout, sigvars, timer, extvars, tpc, tch, tval, tstart, ncalls,
              results, first, combvars, watchvars>>

vars == <<sigstate, podvars>>

\* a Go map as a function; the empty (or nil) map
EmptyMap == [k \in {} |-> <<>>]

\* no User value is in use
NoUsers ==
    /\ userID = <<>>
    /\ user = <<>>
    /\ pvName = <<>>
    /\ storage = <<>>

\* fillAllTmpFiles is not running
NoFill ==
    /\ annotations = EmptyMap
    /\ oneTry = FALSE
    /\ fpc = "off"
    /\ toCopy = <<>>
    /\ fidx = 1
    /\ fi = 0
    /\ ferr = <<>>
    /\ nattempt = EmptyMap
    /\ nsleep = EmptyMap
    /\ nlog = EmptyMap
    /\ succAt = EmptyMap
    /\ firstGood = EmptyMap
    /\ lastRead = <<>>

\* no Pod value is in use
NoCache ==
    /\ cache = <<>>
    /\ pname = <<>>
    /\ files = EmptyMap
    /\ pop = <<>>
    /\ ppc = <<>>
    /\ perr = <<>>
    /\ pinfo = <<>>
    /\ buf = <<>>
    /\ nops = <<>>
    /\ after = <<>>
    /\ lastWriter = 0
    /\ fileAt = <<>>

NoPods == NoUsers /\ NoFill /\ NoCache

\* ---- ReadyChannel -------------------------------------------------------

\* a goroutine is inside <-t.ch with nothing to take
Parked(t, c) == tpc[t] = "recv" /\ tch[t] = c /\ ch[c] = <<>>

\* history of the first Send
NoteSend(c, v, by) ==
    first' = [first EXCEPT ![c] = IF @ = <<>> THEN <<v, now, by>> ELSE @]

\* ReadyChannel.Send with a blocking channel send (no default case)
SendBlocking(c, v, by) ==
    /\ NoteSend(c, v, by)
    /\ \/ /\ Len(ch[c]) < ChanCap
          /\ ch' = [ch EXCEPT ![c] = Append(@, v)]
          /\ UNCHANGED <<tpc, tval>>
       \/ /\ \E t \in Threads :
                /\ Parked(t, c)
                /\ tpc' = [tpc EXCEPT ![t] = "store"]
                /\ tval' = [tval EXCEPT ![t] = v]
          /\ UNCHANGED ch

\* ReadyChannel.Send whose value replaces the buffered one
SendOverwrite(c, v, by) ==
    /\ NoteSend(c, v, by)
    /\ ch' = [ch EXCEPT ![c] = <<v>>]
    /\ UNCHANGED <<tpc, tval>>

\* ReadyChannel.Send: select { case t.ch <- value: default: }
\* (by names the calling goroutine, for the history only)
Send(c, v, by) ==
    /\ NoteSend(c, v, by)
    /\ \/ /\ Len(ch[c]) < ChanCap                 \* room in the buffer
          /\ ch' = [ch EXCEPT ![c] = Append(@, v)]
          /\ UNCHANGED <<tpc, tval>>
       \/ /\ \E t \in Threads :                   \* a parked receiver takes it
                /\ Parked(t, c)
                /\ tpc' = [tpc EXCEPT ![t] = "store"]
                /\ tval' = [tval EXCEPT ![t] = v]
          /\ UNCHANGED ch
       \/ /\ Len(ch[c]) >= ChanCap                \* default: the value is dropped
          /\ UNCHANGED <<ch, tpc, tval>>

\* the goroutine of NewReadyChannel sends true after its sleep
TimerSendTrue(c) ==
    /\ timer[c] = "sleep"
    /\ now = timeout[c]
    /\ Send(c, TRUE, "timer")
    /\ timer' = [timer EXCEPT ![c] = "done"]
    /\ UNCHANGED <<podvars, watchvars, now, timeout, receivedYet, firstValue, mutex, extvars, tch,
                   tstart, ncalls, results, combvars>>

\* the goroutine of NewReadyChannel: time.Sleep(timeout); rc.Send(false)
TimerSend(c) ==
    /\ timer[c] = "sleep"
    /\ now = timeout[c]
    /\ Send(c, FALSE, "timer")
    /\ timer' = [timer EXCEPT ![c] = "done"]
    /\ UNCHANGED <<podvars, watchvars, now, timeout, receivedYet, firstValue, mutex, extvars, tch,
                   tstart, ncalls, results, combvars>>

\* some other goroutine (the event source) calls Send(v)
ExtCall(c, v) ==
    /\ timer[c] # "off"
    /\ extpc[c] = "idle"
    /\ nsent[c] < MaxSends
    /\ extpc' = [extpc EXCEPT ![c] = "send"]
    /\ extval' = [extval EXCEPT ![c] = v]
    /\ UNCHANGED <<podvars, watchvars, now, timeout, sigvars, timer, nsent, tpc, tch, tval, tstart,
                   ncalls, results, first, combvars>>

ExtSend(c) ==
    /\ extpc[c] = "send"
    /\ Send(c, extval[c], "event")
    /\ extpc' = [extpc EXCEPT ![c] = "idle"]
    /\ extval' = [extval EXCEPT ![c] = FALSE]
    /\ nsent' = [nsent EXCEPT ![c] = @ + 1]
    /\ UNCHANGED <<podvars, watchvars, now, timeout, receivedYet, firstValue, mutex, timer, tch,
                   tstart, ncalls, results, combvars>>

\* a goroutine calls c.Receive()
Call(t, c) ==
    /\ tpc[t] = "idle"
    /\ tpc' = [tpc EXCEPT ![t] = "lock"]
    /\ tch' = [tch EXCEPT ![t] = c]
    /\ tstart' = [tstart EXCEPT ![t] = now]

\* Receive that never looks at receivedYet
LockNoCache(t) ==
    /\ tpc[t] = "lock"
    /\ ~mutex[tch[t]]
    /\ mutex' = [mutex EXCEPT ![tch[t]] = TRUE]
    /\ tpc' = [tpc EXCEPT ![t] = "recv"]
    /\ UNCHANGED <<podvars, watchvars, now, timeout, ch, receivedYet, firstValue, timer, extvars, tch,
                   tval, tstart, ncalls, results, first, combvars>>

\* t.mutex.Lock(); if t.receivedYet { return t.firstValue } (the deferred
\* Unlock runs with the return)
Lock(t) ==
    /\ tpc[t] = "lock"
    /\ ~mutex[tch[t]]
    /\ IF receivedYet[tch[t]]
       THEN /\ tval' = [tval EXCEPT ![t] = firstValue[tch[t]]]
            /\ tpc' = [tpc EXCEPT ![t] = "ret"]
            /\ UNCHANGED mutex
       ELSE /\ mutex' = [mutex EXCEPT ![tch[t]] = TRUE]
            /\ tpc' = [tpc EXCEPT ![t] = "recv"]
            /\ UNCHANGED tval
    /\ UNCHANGED <<podvars, watchvars, now, timeout, ch, receivedYet, firstValue, timer, extvars, tch,
                   tstart, ncalls, results, first, combvars>>

\* value := <-t.ch, a value being buffered
RecvTake(t) ==
    /\ tpc[t] = "recv"
    /\ ch[tch[t]] # <<>>
    /\ tval' = [tval EXCEPT ![t] = Head(ch[tch[t]])]
    /\ ch' = [ch EXCEPT ![tch[t]] = Tail(@)]
    /\ tpc' = [tpc EXCEPT ![t] = "store"]
    /\ UNCHANGED <<podvars, watchvars, now, timeout, receivedYet, firstValue, mutex, timer, extvars,
                   tch, tstart, ncalls, results, first, combvars>>

\* t.receivedYet = true; t.firstValue = value; return value (deferred Unlock)
Store(t) ==
    /\ tpc[t] = "store"
    /\ receivedYet' = [receivedYet EXCEPT ![tch[t]] = TRUE]
    /\ firstValue' = [firstValue EXCEPT ![tch[t]] = tval[t]]
    /\ mutex' = [mutex EXCEPT ![tch[t]] = FALSE]
    /\ tpc' = [tpc EXCEPT ![t] = "ret"]
    /\ UNCHANGED <<podvars, watchvars, now, timeout, ch, timer, extvars, tch, tval, tstart, ncalls,
                   results, first, combvars>>

\* a receiver goroutine calls Receive on signal c
ReceiverCall(t, c) ==
    /\ t \in Receivers
    /\ timer[c] # "off"
    /\ ncalls[t] < MaxCalls
    /\ Call(t, c)
    /\ UNCHANGED <<podvars, watchvars, now, timeout, sigvars, timer, extvars, tval, ncalls, results,
                   first, combvars>>

\* ... and gets the value Receive returned
ReceiverReturn(t) ==
    /\ t \in Receivers
    /\ tpc[t] = "ret"
    /\ tpc' = [tpc EXCEPT ![t] = "idle"]
    /\ ncalls' = [ncalls EXCEPT ![t] = @ + 1]
    /\ results' = [results EXCEPT ![tch[t]] = @ \cup {tval[t]}]
    /\ tval' = [tval EXCEPT ![t] = FALSE]
    /\ tstart' = [tstart EXCEPT ![t] = 0]
    /\ UNCHANGED <<podvars, watchvars, now, timeout, sigvars, timer, extvars, tch, first, combvars>>

\* ---- the combinator -----------------------------------------------------

\* the event that input signal c waits for happens: its source sends v, once
Resolve(c, v) ==
    /\ c \in Inputs
    /\ timer[c] # "off"
    /\ nsent[c] = 0
    /\ Send(c, v, "event")
    /\ nsent' = [nsent EXCEPT ![c] = 1]
    /\ UNCHANGED <<podvars, watchvars, now, timeout, receivedYet, firstValue, mutex, timer, extpc,
                   extval, tch, tstart, ncalls, results, combvars>>

\* the combinator waits for the timeout of the input before receiving from it
CombCallAtTimeout ==
    /\ cpc = "loop"
    /\ cidx <= Len(inputChannels)
    /\ now >= timeout[inputChannels[cidx]]
    /\ Call(Comb, inputChannels[cidx])
    /\ cpc' = "recv"
    /\ UNCHANGED <<podvars, watchvars, now, timeout, sigvars, timer, extvars, tval, ncalls, results,
                   first, inputChannels, cidx, output, combAt>>

\* for _, ch := range inputChannels { ... ch.Receive() ...
CombCall ==
    /\ cpc = "loop"
    /\ cidx <= Len(inputChannels)
    /\ Call(Comb, inputChannels[cidx])
    /\ cpc' = "recv"
    /\ UNCHANGED <<podvars, watchvars, now, timeout, sigvars, timer, extvars, tval, ncalls, results,
                   first, inputChannels, cidx, output, combAt>>

\* the loop body keeps the value of the last input
CombNextLast ==
    /\ cpc = "recv"
    /\ tpc[Comb] = "ret"
    /\ output' = tval[Comb]
    /\ cidx' = cidx + 1
    /\ cpc' = "loop"
    /\ tpc' = [tpc EXCEPT ![Comb] = "idle"]
    /\ tval' = [tval EXCEPT ![Comb] = FALSE]
    /\ tstart' = [tstart EXCEPT ![Comb] = 0]
    /\ UNCHANGED <<podvars, watchvars, now, timeout, sigvars, timer, extvars, tch, ncalls, results,
                   first, inputChannels, combAt>>

\* if !ch.Receive() { output = false } }
CombNext ==
    /\ cpc = "recv"
    /\ tpc[Comb] = "ret"
    /\ output' = IF ~tval[Comb] THEN FALSE ELSE output
    /\ cidx' = cidx + 1
    /\ cpc' = "loop"
    /\ tpc' = [tpc EXCEPT ![Comb] = "idle"]
    /\ tval' = [tval EXCEPT ![Comb] = FALSE]
    /\ tstart' = [tstart EXCEPT ![Comb] = 0]
    /\ UNCHANGED <<podvars, watchvars, now, timeout, sigvars, timer, extvars, tch, ncalls, results,
                   first, inputChannels, combAt>>

\* return output (ReceiveReadyChannels returns to CombineReadyChannels)
CombReturn ==
    /\ cpc = "loop"
    /\ cidx > Len(inputChannels)
    /\ cpc' = "send"
    /\ combAt' = <<now>>
    /\ UNCHANGED <<podvars, watchvars, now, timeout, sigvars, timer, extvars, tpc, tch, tval, tstart,
                   ncalls, results, first, inputChannels, cidx, output>>

\* the combinator publishes true whatever it received
CombSendTrue ==
    /\ cpc = "send"
    /\ Send(Agg, TRUE, "comb")
    /\ cpc' = "done"
    /\ UNCHANGED <<podvars, watchvars, now, timeout, receivedYet, firstValue, mutex, timer, extvars,
                   tch, tstart, ncalls, results, inputChannels, cidx, output, combAt>>

\* outputChannel.Send(output)
CombSend ==
    /\ cpc = "send"
    /\ Send(Agg, output, "comb")
    /\ cpc' = "done"
    /\ UNCHANGED <<podvars, watchvars, now, timeout, receivedYet, firstValue, mutex, timer, extvars,
                   tch, tstart, ncalls, results, inputChannels, cidx, output, combAt>>

\* once CombineReadyChannels has run, a goroutine calls Receive on the aggregate
ObserverCall ==
    /\ cpc = "done"
    /\ ReceiverCall(1, Agg)

\* ---- watch sessions -----------------------------------------------------
\* A session is named after the input signal it resolves; its channel ch is
\* the channel of that signal, and WatchFor is called with the timeout the
\* signal was created with.

Sessions == Inputs

SupportedTypes == {"Pod", "PV", "PVC", "SVC"}

\* the (resourceType, signalFunc) pairs of the Watch... wrappers, and a call
\* of WatchFor with a resource type it does not know
WatchCalls ==
    { <<"Pod", "signalDeleted">>, <<"Pod", "signalPodReady">>,
      <<"PVC", "signalDeleted">>, <<"PVC", "signalPVCReady">>,
      <<"PV", "signalDeleted">>, <<"PV", "signalPVReady">>,
      <<"SVC", "signalDeleted">>, <<"Deployment", "signalDeleted">> }

EventTypes == {"Added", "Modified", "Deleted"}

\* what an event reports of its object: the status of the pod's Ready
\* condition ("None": no such condition), or the phase of the volume or claim
StatusOf(rt) ==
    CASE rt = "Pod" -> {"True", "False", "None"}
      [] rt = "PV" -> {"Pending", "Available", "Bound"}
      [] rt = "PVC" -> {"Pending", "Bound"}
      [] OTHER -> {"None"}

EventsOf(rt) == [type : EventTypes, st : StatusOf(rt)]

\* signalPodReady taking every Modified event for a ready pod
MatchesAnyModified(f, e) ==
    CASE f = "signalPodReady" -> e.type = "Modified"
      [] f = "signalDeleted" -> e.type = "Deleted"
      [] f = "signalPVReady" -> e.type = "Modified" /\ e.st = "Available"
      [] f = "signalPVCReady" -> e.type = "Modified" /\ e.st = "Bound"

\* the classifiers of the volume and of the claim not looking at the phase
MatchesIgnoringPhase(f, e) ==
    CASE f = "signalPodReady" -> e.type = "Modified" /\ e.st = "True"
      [] f = "signalDeleted" -> e.type = "Deleted"
      [] f = "signalPVReady" -> e.type = "Modified"
      [] f = "signalPVCReady" -> e.type = "Modified"

\* the terminal condition of each classifier
Matches(f, e) ==
    CASE f = "signalPodReady" -> e.type = "Modified" /\ e.st = "True"
      [] f = "signalDeleted" -> e.type = "Deleted"
      [] f = "signalPVReady" -> e.type = "Modified" /\ e.st = "Available"
      [] f = "signalPVCReady" -> e.type = "Modified" /\ e.st = "Bound"

\* util.TrySend(ch, value): a send that never blocks
TrySend(c, v, by) == Send(c, v, by)

\* WatchFor up to the call of signalFunc: the switch, err, time.AfterFunc
WatchForSetup(s) ==
    /\ wpc[s] = "call"
    /\ \E fails \in BOOLEAN :
          LET err == resourceType[s] \notin SupportedTypes \/ fails IN
          /\ werr' = [werr EXCEPT ![s] = err]
          /\ wpc' = [wpc EXCEPT ![s] = IF err THEN "fail" ELSE "range"]
          /\ afterFunc' = [afterFunc EXCEPT ![s] = IF err THEN "off" ELSE "armed"]
    /\ UNCHANGED <<podvars, now, timeout, sigvars, timer, extvars, tpc, tch, tval, tstart,
                   ncalls, results, first, combvars, resourceType, signalFunc, wlog,
                   stopped, closed, nemit, ntrue>>

\* if err != nil { util.TrySend(ch, false); fmt.Printf(...); return }
WatchForFail(s) ==
    /\ wpc[s] = "fail"
    /\ TrySend(s, FALSE, "setup")
    /\ wlog' = [wlog EXCEPT ![s] = TRUE]
    /\ wpc' = [wpc EXCEPT ![s] = "returned"]
    /\ UNCHANGED <<podvars, now, timeout, receivedYet, firstValue, mutex, timer, extvars,
                   tch, tstart, ncalls, results, combvars, resourceType, signalFunc,
                   werr, afterFunc, stopped, closed, nemit, ntrue>>

\* the function of time.AfterFunc without watcher.Stop()
AfterFuncNoStop(s) ==
    /\ afterFunc[s] = "armed"
    /\ now = timeout[s]
    /\ TrySend(s, FALSE, "afterfunc")
    /\ afterFunc' = [afterFunc EXCEPT ![s] = "done"]
    /\ UNCHANGED <<podvars, now, timeout, receivedYet, firstValue, mutex, timer, extvars,
                   tch, tstart, ncalls, results, combvars, resourceType, signalFunc,
                   werr, wlog, wpc, stopped, closed, nemit, ntrue>>

\* time.AfterFunc(timeout, func() { watcher.Stop(); util.TrySend(ch, false) })
AfterFuncFire(s) ==
    /\ afterFunc[s] = "armed"
    /\ now = timeout[s]
    /\ stopped' = [stopped EXCEPT ![s] = TRUE]
    /\ TrySend(s, FALSE, "afterfunc")
    /\ afterFunc' = [afterFunc EXCEPT ![s] = "done"]
    /\ UNCHANGED <<podvars, now, timeout, receivedYet, firstValue, mutex, timer, extvars,
                   tch, tstart, ncalls, results, combvars, resourceType, signalFunc,
                   werr, wlog, wpc, closed, nemit, ntrue>>

\* a stopped watcher closes its result channel
WatcherClose(s) ==
    /\ stopped[s]
    /\ ~closed[s]
    /\ closed' = [closed EXCEPT ![s] = TRUE]
    /\ UNCHANGED <<podvars, now, timeout, sigvars, timer, extvars, tpc, tch, tval, tstart,
                   ncalls, results, first, combvars, resourceType, signalFunc, werr,
                   wlog, wpc, afterFunc, stopped, nemit, ntrue>>

\* the connection of the watch is lost: the result channel is closed
StreamLost(s) ==
    /\ wpc[s] = "range"
    /\ ~stopped[s]
    /\ ~closed[s]
    /\ closed' = [closed EXCEPT ![s] = TRUE]
    /\ UNCHANGED <<podvars, now, timeout, sigvars, timer, extvars, tpc, tch, tval, tstart,
                   ncalls, results, first, combvars, resourceType, signalFunc, werr,
                   wlog, wpc, afterFunc, stopped, nemit, ntrue>>

\* a classifier that reports false on an event it does not await
RangeNextFalseOnMiss(s, e) ==
    /\ wpc[s] = "range"
    /\ ~closed[s]
    /\ nemit[s] < MaxEvents
    /\ e \in EventsOf(resourceType[s])
    /\ nemit' = [nemit EXCEPT ![s] = @ + 1]
    /\ IF Matches(signalFunc[s], e)
       THEN /\ stopped' = [stopped EXCEPT ![s] = TRUE]
            /\ TrySend(s, TRUE, "classifier")
            /\ ntrue' = [ntrue EXCEPT ![s] = @ + 1]
       ELSE /\ TrySend(s, FALSE, "classifier")
            /\ UNCHANGED <<stopped, ntrue>>
    /\ UNCHANGED <<podvars, now, timeout, receivedYet, firstValue, mutex, timer, extvars,
                   tch, tstart, ncalls, results, combvars, resourceType, signalFunc,
                   werr, wlog, wpc, afterFunc, closed>>

\* for event := range watcher.ResultChan() { if <terminal condition>
\* { watcher.Stop(); util.TrySend(ch, true) } }: one iteration.  The result
\* channel is unbuffered, so the control plane's event e is handed over in
\* the step in which the loop receives it.
RangeNext(s, e) ==
    /\ wpc[s] = "range"
    /\ ~closed[s]
    /\ nemit[s] < MaxEvents
    /\ e \in EventsOf(resourceType[s])
    /\ nemit' = [nemit EXCEPT ![s] = @ + 1]
    /\ IF Matches(signalFunc[s], e)
       THEN /\ stopped' = [stopped EXCEPT ![s] = TRUE]
            /\ TrySend(s, TRUE, "classifier")
            /\ ntrue' = [ntrue EXCEPT ![s] = @ + 1]
       ELSE UNCHANGED <<stopped, ntrue, ch, tpc, tval, first>>
    /\ UNCHANGED <<podvars, now, timeout, receivedYet, firstValue, mutex, timer, extvars,
                   tch, tstart, ncalls, results, combvars, resourceType, signalFunc,
                   werr, wlog, wpc, afterFunc, closed>>

\* the result channel is closed: the range loop ends, signalFunc
\* and WatchFor return
RangeEnd(s) ==
    /\ wpc[s] = "range"
    /\ closed[s]
    /\ wpc' = [wpc EXCEPT ![s] = "returned"]
    /\ UNCHANGED <<podvars, now, timeout, sigvars, timer, extvars, tpc, tch, tval, tstart,
                   ncalls, results, first, combvars, resourceType, signalFunc, werr,
                   wlog, afterFunc, stopped, closed, nemit, ntrue>>

\* ---- the clock ----------------------------------------------------------

\* the steps of the goroutines (everything but the passing of time and the
\* choices of the environment)
Steps ==
    \/ \E c \in Chans : TimerSend(c) \/ ExtSend(c)
    \/ \E t \in Threads : Lock(t) \/ RecvTake(t) \/ Store(t) \/ ReceiverReturn(t)
    \/ CombCall \/ CombNext \/ CombReturn \/ CombSend
    \/ \E s \in Sessions : \/ WatchForSetup(s) \/ WatchForFail(s) \/ AfterFuncFire(s)
                           \/ WatcherClose(s) \/ RangeEnd(s)

\* some goroutine can take a step now
Urgent == ENABLED Steps

Tick ==
    /\ now < MaxTime
    /\ ~Urgent
    /\ now' = now + 1
    /\ UNCHANGED <<podvars, watchvars, timeout, sigvars, timer, extvars, tpc, tch, tval,
                   tstart, ncalls, results, first, combvars>>

\* ---- a single ReadyChannel ----------------------------------------------

\* NewReadyChannel(timeout[c]) has just been called for the signals in cs
\* (the inputs with timeout ti, the aggregate with timeout ta)
InitChans(cs, ti, ta) ==
    /\ now = 0
    /\ timeout = [c \in Chans |-> IF c = Agg THEN ta ELSE ti]
    /\ ch = [c \in Chans |-> <<>>]
    /\ receivedYet = [c \in Chans |-> FALSE]
    /\ firstValue = [c \in Chans |-> FALSE]
    /\ mutex = [c \in Chans |-> FALSE]
    /\ timer = [c \in Chans |-> IF c \in cs THEN "sleep" ELSE "off"]
    /\ extpc = [c \in Chans |-> "idle"]
    /\ extval = [c \in Chans |-> FALSE]
    /\ nsent = [c \in Chans |-> 0]
    /\ tpc = [t \in Threads |-> "idle"]
    /\ tch = [t \in Threads |-> RC]
    /\ tval = [t \in Threads |-> FALSE]
    /\ tstart = [t \in Threads |-> 0]
    /\ ncalls = [t \in Threads |-> 0]
    /\ results = [c \in Chans |-> {}]
    /\ first = [c \in Chans |-> <<>>]

\* no combinator is running
NoComb ==
    /\ inputChannels = <<>>
    /\ cpc = "off"
    /\ cidx = 1
    /\ output = TRUE
    /\ combAt = <<>>

\* WatchFor(name, timeout[s], call[s][1], call[s][2], ch) is being called
\* for the sessions in the domain of call
InitWatch(call) ==
    /\ resourceType = [s \in Sessions |-> IF s \in DOMAIN call THEN call[s][1] ELSE "Pod"]
    /\ signalFunc = [s \in Sessions |->
                        IF s \in DOMAIN call THEN call[s][2] ELSE "signalDeleted"]
    /\ werr = [s \in Sessions |-> FALSE]
    /\ wlog = [s \in Sessions |-> FALSE]
    /\ wpc = [s \in Sessions |-> IF s \in DOMAIN call THEN "call" ELSE "off"]
    /\ afterFunc = [s \in Sessions |-> "off"]
    /\ stopped = [s \in Sessions |-> FALSE]
    /\ closed = [s \in Sessions |-> FALSE]
    /\ nemit = [s \in Sessions |-> 0]
    /\ ntrue = [s \in Sessions |-> 0]

\* no watch session is running
NoWatch == InitWatch(<<>>)

Init == (\E ta \in 1..MaxTimeout : InitChans({RC}, 1, ta)) /\ NoComb /\ NoWatch /\ NoPods

Next ==
    \/ Tick
    \/ TimerSend(RC)
    \/ \E v \in BOOLEAN : ExtCall(RC, v)
    \/ ExtSend(RC)
    \/ \E t \in Receivers : ReceiverCall(t, RC)
    \/ \E t \in Receivers : Lock(t)
    \/ \E t \in Receivers : RecvTake(t)
    \/ \E t \in Receivers : Store(t)
    \/ \E t \in Receivers : ReceiverReturn(t)

Spec == Init /\ [][Next]_vars

\* the scheduler never stops while some goroutine can run or time can pass
Fairness == WF_vars(Next)

FairSpec == Spec /\ Fairness

\* ---- properties of a single ReadyChannel --------------------------------

\* the goroutine is inside Receive
InReceive(t) == tpc[t] \in {"lock", "recv", "store"}

\* the resolved value of a signal as a sequence: <<>> while unresolved, else
\* <<v>> with v recorded in firstValue, on its way there, or pending in ch
Outcome(c) ==
    IF receivedYet[c] THEN <<firstValue[c]>>
    ELSE IF \E t \in Threads : tpc[t] = "store" /\ tch[t] = c
         THEN <<tval[CHOOSE t \in Threads : tpc[t] = "store" /\ tch[t] = c]>>
         ELSE ch[c]

\* the values Receive has returned so far on signal c
Returned(c) ==
    results[c] \cup {tval[t] : t \in {u \in Threads : tpc[u] = "ret" /\ tch[u] = c}}

\* C1: every Receive call that returns on one ReadyChannel yields the same
\* value, whatever Sends, timer and concurrent Receives are interleaved.
C1_SameValue == \A c \in Chans : Cardinality(Returned(c)) <= 1

\* both receivers have returned, one of them from firstValue, while a later
\* Send of the opposite value sits in the drained channel
C1_Witness ==
    /\ \A t \in Receivers : ncalls[t] >= 1
    /\ receivedYet[RC]
    /\ ch[RC] = <<~firstValue[RC]>>

\* C2: Receive returns the value of the first Send performed on the signal
\* (the timer's Send(false) included); later Sends never change it.
C2_FirstWriterWins ==
    \A c \in Chans :
        /\ Returned(c) # {} => first[c] # <<>> /\ Returned(c) = {first[c][1]}
        /\ first[c] # <<>> => Outcome(c) = <<first[c][1]>>

\* true was sent before the timeout, the timer has fired since, and a Receive
\* called after the timeout returned true
C2_Witness ==
    /\ first[RC] # <<>> /\ first[RC][1] = TRUE /\ first[RC][2] < timeout[RC]
    /\ timer[RC] = "done"
    /\ \E t \in Receivers : tpc[t] = "ret" /\ tstart[t] > timeout[RC] /\ tval[t] = TRUE

C3_Safety ==
    \A t \in Receivers :
        /\ tpc[t] = "ret" /\ nsent[tch[t]] = 0 =>
              /\ tval[t] = FALSE
              /\ timer[tch[t]] = "done"
              /\ now >= timeout[tch[t]]
        /\ InReceive(t) => now <= timeout[tch[t]] \/ now = tstart[t]

\* C3: with no other Send, a Receive returns only once the timer has fired
\* and then returns false; no Receive is still blocked after the timeout, and
\* every Receive call eventually returns.
C3_TimeoutResolvesFalse ==
    /\ []C3_Safety
    /\ <>[](\A t \in Receivers : ~InReceive(t))

\* both receivers called Receive before the timeout, nobody sent, and both
\* have returned
C3_Witness ==
    /\ nsent[RC] = 0 /\ extpc[RC] = "idle"
    /\ \E t \in Receivers :
          /\ tpc[t] = "ret" /\ tstart[t] < timeout[RC]
          /\ \E u \in Receivers \ {t} : ncalls[u] = 1 /\ results[RC] = {FALSE}

\* a Send step on signal c, with the value sent
SendStep(c, v) ==
    \/ ExtSend(c) /\ extval[c] = v
    \/ TimerSend(c) /\ v = FALSE

\* C4: Send never blocks (a goroutine inside Send can always complete it),
\* and it resolves the signal to its value when the signal is unresolved and
\* otherwise leaves the resolved value as it is.
C4_SendNeverBlocks ==
    /\ [](\A c \in Chans : /\ extpc[c] = "send" => ENABLED ExtSend(c)
                           /\ timer[c] = "sleep" /\ now = timeout[c]
                                 => ENABLED TimerSend(c))
    /\ [][\A c \in Chans : \A v \in BOOLEAN :
            SendStep(c, v) =>
                Outcome(c)' = (IF Outcome(c) = <<>> THEN <<v>> ELSE Outcome(c))]_vars

\* a goroutine is inside Send while the buffer is full and another goroutine
\* holds the mutex
C4_Witness ==
    /\ extpc[RC] = "send"
    /\ Len(ch[RC]) = ChanCap
    /\ mutex[RC]
    /\ \E t \in Receivers : tpc[t] = "lock"

\* ---- the combinator over its input signals ------------------------------

InputList == <<"pv", "pvc", "pod">>

\* the logical AND of the resolved values of the inputs
AllTrue == \A i \in 1..Len(inputChannels) : Outcome(inputChannels[i]) = <<TRUE>>

\* every input of the combinator is resolved
AllResolved == \A i \in 1..Len(inputChannels) : first[inputChannels[i]] # <<>>

\* the latest time at which an input was resolved (0 without inputs)
LastResolved ==
    IF inputChannels = <<>> THEN 0
    ELSE LET ts == {first[inputChannels[i]][2] : i \in 1..Len(inputChannels)}
         IN  CHOOSE m \in ts : \A u \in ts : u <= m

\* go CombineReadyChannels(inputs, aggregate), over the first n signals of
\* InputList, each signal and the aggregate fresh from NewReadyChannel
InitCombine ==
    /\ \E n \in 0..Len(InputList) : \E ti, ta \in 1..MaxTimeout :
          /\ inputChannels = SubSeq(InputList, 1, n)
          /\ InitChans({InputList[i] : i \in 1..n} \cup {Agg}, ti, ta)
    /\ cpc = "loop"
    /\ cidx = 1
    /\ output = TRUE
    /\ combAt = <<>>
    /\ NoWatch
    /\ NoPods

NextCombine ==
    \/ Tick
    \/ \E c \in Chans : TimerSend(c)
    \/ \E c \in Inputs : \E v \in BOOLEAN : Resolve(c, v)
    \/ CombCall
    \/ CombNext
    \/ CombReturn
    \/ CombSend
    \/ ObserverCall
    \/ \E t \in {1, Comb} : Lock(t)
    \/ \E t \in {1, Comb} : RecvTake(t)
    \/ \E t \in {1, Comb} : Store(t)
    \/ ReceiverReturn(1)

SpecCombine == InitCombine /\ [][NextCombine]_vars

\* C5: ReceiveReadyChannels returns true iff every input signal resolved
\* true (false as soon as one resolved false, by timeout or otherwise,
\* wherever it stands in the list; true over the empty list).
C5_ReturnsAnd ==
    cpc \in {"send", "done"} => AllResolved /\ output = AllTrue

\* three inputs, the first one timed out, the others resolved true, and
\* ReceiveReadyChannels has returned
C5_Witness ==
    /\ cpc = "send"
    /\ Len(inputChannels) = 3
    /\ first[inputChannels[1]][3] = "timer"
    /\ \A i \in 2..3 : Outcome(inputChannels[i]) = <<TRUE>>

\* the value the aggregate resolves to: the AND of the inputs when the
\* combinator's Send was the first Send on it, false when its timer was first
AggValue == IF first[Agg][3] = "comb" THEN AllTrue ELSE FALSE

\* C6 as claimed: once CombineReadyChannels has run, Receive on the aggregate
\* returns the AND of the inputs, however the aggregate's timer interleaves.
C6_AggregateIsAnd ==
    cpc = "done" => Returned(Agg) \subseteq {AllTrue}

\* C6 (amended): once CombineReadyChannels has run, Receive on the aggregate
\* returns the AND of the inputs if the combinator's Send was the first Send
\* on the aggregate, and false if the aggregate's own timer sent first.
C6_AggregateIsAndUnlessTimedOut ==
    cpc = "done" =>
        /\ first[Agg] # <<>>
        /\ Outcome(Agg) = <<AggValue>>
        /\ Returned(Agg) \subseteq {AggValue}

\* three inputs resolved true, the combinator sent first, the aggregate's
\* timer fired afterwards, and Receive on the aggregate returned true
C6_Witness ==
    /\ cpc = "done"
    /\ Len(inputChannels) = 3
    /\ first[Agg][3] = "comb"
    /\ timer[Agg] = "done"
    /\ results[Agg] = {TRUE}

\* C7: ReceiveReadyChannels returns at the moment the last of its inputs is
\* resolved, whatever the order of the resolutions: it waits as long as the
\* slowest input, not the sum of the waits.
C7_DoneWithSlowestInput ==
    cpc \in {"send", "done"} => combAt = <<LastResolved>>

\* the first and the third input resolve true at time 1, the second one at
\* time 0, all before their timeout, and the combinator is done at time 1
C7_Witness ==
    /\ cpc = "done"
    /\ Len(inputChannels) = 3
    /\ \A i \in 1..3 : first[inputChannels[i]][1] /\ first[inputChannels[i]][3] = "event"
    /\ first[inputChannels[1]][2] = 1
    /\ first[inputChannels[2]][2] = 0
    /\ first[inputChannels[3]][2] = 1
    /\ timeout[inputChannels[1]] > 1
    /\ combAt = <<1>>

\* ---- one watch session --------------------------------------------------

WS == "pod"                       \* the session of the single-session specification

\* what WatchFor hands back to its caller: it has no result parameters
WatchForReturn(s) == <<>>

InitWatchOne ==
    /\ \E t \in 1..MaxTimeout : InitChans({WS}, t, 1)
    /\ \E call \in WatchCalls : InitWatch([s \in {WS} |-> call])
    /\ NoComb
    /\ NoPods

NextWatch ==
    \/ Tick
    \/ TimerSend(WS)
    \/ WatchForSetup(WS)
    \/ WatchForFail(WS)
    \/ AfterFuncFire(WS)
    \/ \E e \in EventsOf(resourceType[WS]) : RangeNext(WS, e)
    \/ WatcherClose(WS)
    \/ StreamLost(WS)
    \/ RangeEnd(WS)
    \/ ReceiverCall(1, WS)
    \/ Lock(1)
    \/ RecvTake(1)
    \/ Store(1)
    \/ ReceiverReturn(1)

SpecWatch == InitWatchOne /\ [][NextWatch]_vars

FairSpecWatch == SpecWatch /\ WF_vars(NextWatch)

\* C9: when the setup of WatchFor fails, the signal is resolved false at
\* once, WatchFor returns without waiting, leaves no timer and no
\* subscription behind, and reports the error to its caller.
C9_SetupFailureReported ==
    \A s \in Sessions :
        wpc[s] = "returned" /\ werr[s] =>
            /\ first[s] = <<FALSE, 0, "setup">>
            /\ afterFunc[s] = "off"
            /\ ~stopped[s] /\ nemit[s] = 0
            /\ WatchForReturn(s) # <<>>

\* the setup of session s succeeded
SetupDone(s) == wpc[s] \in {"range", "returned"} /\ ~werr[s]

C10_Safety ==
    \A s \in Sessions :
        SetupDone(s) =>
            /\ now < timeout[s] => afterFunc[s] = "armed"
            /\ afterFunc[s] = "done" =>
                  /\ stopped[s]
                  /\ first[s] # <<>>
                  /\ first[s][3] = "afterfunc" => first[s] = <<FALSE, timeout[s], "afterfunc">>
            /\ now > timeout[s] =>
                  afterFunc[s] = "done" /\ closed[s] /\ wpc[s] = "returned"

\* C10: a session whose setup succeeded stops its subscription at the
\* timeout and resolves the signal false if it is unresolved then; the
\* subscription is eventually stopped and WatchFor eventually returns.
C10_StoppedAtTimeout ==
    /\ []C10_Safety
    /\ [][\A s \in Sessions :
            AfterFuncFire(s) =>
                Outcome(s)' = (IF Outcome(s) = <<>> THEN <<FALSE>> ELSE Outcome(s))]_vars
    /\ <>[](\A s \in Sessions :
               wpc[s] # "off" => wpc[s] = "returned" /\ (~werr[s] => stopped[s] /\ closed[s]))

\* events came but none was the awaited one: the timer of WatchFor stopped
\* the watcher, resolved the signal false, and WatchFor has returned
C10_Witness ==
    /\ wpc[WS] = "returned"
    /\ ~werr[WS]
    /\ nemit[WS] > 0 /\ ntrue[WS] = 0
    /\ first[WS] = <<FALSE, timeout[WS], "afterfunc">>
    /\ stopped[WS] /\ closed[WS]

\* C11: within one session a classifier calls send(true) at most once, at
\* the first awaited event, where it also stops its subscription; further
\* awaited events delivered before the stream closes cause no send.
C11_SendsTrueOnce ==
    \A s \in Sessions :
        /\ ntrue[s] <= 1
        /\ ntrue[s] >= 1 => stopped[s]

\* C12: a classifier sends true on an event exactly if the event is the one
\* it awaits (pod: Modified with Ready True; volume: Modified with phase
\* Available; claim: Modified with phase Bound; deletion: Deleted); any
\* other event causes no send and leaves the subscription running.
C12_SendsTrueIffAwaited ==
    [][\A s \in Sessions : \A e \in EventsOf(resourceType[s]) :
          RangeNext(s, e) =>
              LET f == signalFunc[s]
                  awaited ==
                      \/ f = "signalPodReady" /\ e.type = "Modified" /\ e.st = "True"
                      \/ f = "signalPVReady" /\ e.type = "Modified" /\ e.st = "Available"
                      \/ f = "signalPVCReady" /\ e.type = "Modified" /\ e.st = "Bound"
                      \/ f = "signalDeleted" /\ e.type = "Deleted"
              IN  /\ awaited <=> ntrue'[s] = ntrue[s] + 1
                  /\ awaited =>
                        /\ stopped'[s]
                        /\ first[s] = <<>> => first'[s] = <<TRUE, now, "classifier">>
                        /\ Outcome(s)' = (IF Outcome(s) = <<>> THEN <<TRUE>> ELSE Outcome(s))
                  /\ ~awaited =>
                        /\ UNCHANGED <<ch, tpc, tval, first, ntrue>>
                        /\ UNCHANGED <<stopped, closed, wpc, afterFunc>>]_vars

\* an event that is not the awaited one was ignored, the next one was the
\* awaited one and resolved the signal true
C12_Witness ==
    /\ nemit[WS] = 2
    /\ ntrue[WS] = 1
    /\ first[WS] # <<>>
    /\ first[WS][3] = "classifier"
    /\ results[WS] = {TRUE}

\* C13: a false value reaches a session's signal only from a timer or from
\* the setup failure of WatchFor; no step of a classifier sends false.
C13_ClassifiersNeverSendFalse ==
    /\ [](\A s \in Sessions :
             first[s] # <<>> /\ first[s][1] = FALSE =>
                 first[s][3] \in {"timer", "afterfunc", "setup"})
    /\ [][\A s \in Sessions :
             nemit'[s] # nemit[s] =>
                 /\ ch'[s] # ch[s] => ch'[s] = Append(ch[s], TRUE)
                 /\ \A t \in Threads :
                       tch[t] = s /\ tpc[t] # "store" /\ tpc'[t] = "store" => tval'[t]
                 /\ first'[s] # first[s] => first'[s][1]]_vars

\* the classifier consumed events that were not the awaited one, and the
\* signal was resolved false by a timer
C13_Witness ==
    /\ nemit[WS] = MaxEvents
    /\ ntrue[WS] = 0
    /\ wpc[WS] = "returned"
    /\ first[WS] # <<>>
    /\ first[WS][1] = FALSE
    /\ results[WS] = {FALSE}

\* ---- three watch sessions feeding the combinator ------------------------

\* WatchCreatePV, WatchCreatePVC and WatchCreatePod run with one timeout,
\* their signals are combined into the aggregate, which has the same timeout
InitE2E ==
    /\ \E t \in 1..MaxTimeout : InitChans(Chans, t, t)
    /\ InitWatch([s \in Sessions |->
                    CASE s = "pv" -> <<"PV", "signalPVReady">>
                      [] s = "pvc" -> <<"PVC", "signalPVCReady">>
                      [] s = "pod" -> <<"Pod", "signalPodReady">>])
    /\ inputChannels = InputList
    /\ cpc = "loop"
    /\ cidx = 1
    /\ output = TRUE
    /\ combAt = <<>>
    /\ NoPods

\* the three Watch calls succeed; the volume and the claim get one event, the
\* awaited one, before the timeout (the clock does not reach it otherwise); the pod
\* never becomes ready: the events of its session are of any other kind
NextE2E ==
    \/ Tick /\ (now' >= timeout[Agg] => first["pv"] # <<>> /\ first["pvc"] # <<>>)
    \/ \E c \in Chans : TimerSend(c)
    \/ \E s \in Sessions : WatchForSetup(s) /\ ~werr'[s]
    \/ \E s \in Sessions : AfterFuncFire(s)
    \/ \E s \in Sessions \ {"pod"} : \E e \in EventsOf(resourceType[s]) :
          nemit[s] = 0 /\ RangeNext(s, e)
    \/ \E e \in {x \in EventsOf("Pod") : ~(x.type = "Modified" /\ x.st = "True")} :
          RangeNext("pod", e)
    \/ \E s \in Sessions : WatcherClose(s)
    \/ \E s \in Sessions : RangeEnd(s)
    \/ CombCall
    \/ CombNext
    \/ CombReturn
    \/ CombSend
    \/ ObserverCall
    \/ \E t \in {1, Comb} : Lock(t)
    \/ \E t \in {1, Comb} : RecvTake(t)
    \/ \E t \in {1, Comb} : Store(t)
    \/ ReceiverReturn(1)

SpecE2E == InitE2E /\ [][NextE2E]_vars

\* C8: three sessions with one timeout are combined and the pod never
\* becomes ready: the aggregate resolves false, at the timeout and not
\* before, and it is resolved once the timeout has passed.
C8_FalseAtTimeout ==
    SetupDone("pod") =>
        /\ first[Agg] # <<>> => first[Agg][1] = FALSE /\ first[Agg][2] = timeout[Agg]
        /\ Returned(Agg) \subseteq {FALSE}
        /\ now > timeout[Agg] => first[Agg] # <<>> /\ cpc = "done"

\* the sessions of the volume and of the claim saw their events, the pod's
\* session saw events but no ready one, and Receive on the aggregate
\* returned false
C8_Witness ==
    /\ cpc = "done"
    /\ SetupDone("pod")
    /\ nemit["pod"] > 0
    /\ first["pv"][3] = "classifier"
    /\ first["pvc"][3] = "classifier"
    /\ first["pod"][1] = FALSE
    /\ results[Agg] = {FALSE}

\* ---- users (package managed) --------------------------------------------
\* A string is a sequence of characters.

\* no signalling is going on
NoSignals == InitChans({}, 1, 1) /\ NoComb /\ NoWatch

IdChars == {"a", ".", "-"}        \* the characters of a name or of a domain

NamesOfLen(n) == UNION {[1..k -> IdChars] : k \in 1..n}

\* identifiers of the form name or name@domain
UserIDs ==
    NamesOfLen(MaxIdLen) \cup
    {x \o <<"@">> \o d : x \in NamesOfLen(MaxIdLen - 2), d \in NamesOfLen(MaxIdLen - 2)}

UserSlots == {"one", "other"}     \* two users of the service

\* strings.Cut(s, sep): the text before and after the first sep
Cut(s, sep) ==
    IF \E i \in 1..Len(s) : s[i] = sep
    THEN LET i == CHOOSE k \in 1..Len(s) : s[k] = sep /\ \A j \in 1..(k - 1) : s[j] # sep
         IN  <<SubSeq(s, 1, i - 1), SubSeq(s, i + 1, Len(s))>>
    ELSE <<s, <<>>>>

\* NewUser(userID, siloIP, client)
NewUser(id) ==
    IF id = <<>>
    THEN [UserID |-> <<>>, Name |-> <<>>, Domain |-> <<>>]
    ELSE [UserID |-> id, Name |-> Cut(id, "@")[1], Domain |-> Cut(id, "@")[2]]

\* strings.Replace(s, old, new, -1) for a one-character old
Replace(s, old, new) == [i \in 1..Len(s) |-> IF s[i] = old THEN new ELSE s[i]]

\* User.GetUserString
GetUserString(u) == Replace(Replace(u.UserID, "@", "-"), ".", "-")

StoragePrefix == <<"u", "s", "e", "r", "-", "s", "t", "o", "r", "a", "g", "e", "-">>

\* User.GetStoragePVName
GetStoragePVName(u) == StoragePrefix \o GetUserString(u)

\* User.GetStorageListOptions: its LabelSelector
GetStorageListOptions(u) == <<"n", "a", "m", "e", "=">> \o GetStoragePVName(u)

\* a request handler builds the User of a request
NewUserCall(i) ==
    /\ user[i] = <<>>
    /\ user' = [user EXCEPT ![i] = <<NewUser(userID[i])>>]
    /\ UNCHANGED <<sigstate, userID, pvName, storage, fillvars, cachevars>>

\* the name of the user's storage volume and claim is computed
GetStoragePVNameCall(i) ==
    /\ user[i] # <<>>
    /\ pvName[i] = <<>>
    /\ pvName' = [pvName EXCEPT ![i] = <<GetStoragePVName(user[i][1])>>]
    /\ UNCHANGED <<sigstate, userID, user, storage, fillvars, cachevars>>

\* User.GetListOptions: the requirements of its LabelSelector
\* ("user=Name,domain=Domain"; none for the empty user)
GetListOptions(u) ==
    IF u.UserID # <<>>
    THEN [k \in {"user", "domain"} |-> IF k = "user" THEN u.Name ELSE u.Domain]
    ELSE EmptyMap

\* the requirement of the LabelSelector of GetStorageListOptions
StorageSelector(u) == [k \in {"name"} |-> GetStoragePVName(u)]

\* a label selector matches the labels that meet each of its requirements
SelectorMatches(sel, labels) ==
    \A k \in DOMAIN sel : k \in DOMAIN labels /\ labels[k] = sel[k]

\* User.GetTargetStoragePV: its name and labels (the server label is SiloIP)
GetTargetStoragePV(u) ==
    [name |-> GetStoragePVName(u),
     labels |-> [k \in {"name", "user", "domain", "server"} |->
                    CASE k = "name" -> GetStoragePVName(u)
                      [] k = "user" -> u.Name
                      [] k = "domain" -> u.Domain
                      [] k = "server" -> <<"s">>]]

\* User.GetTargetStoragePVC: its name and labels
GetTargetStoragePVC(u) ==
    [name |-> GetStoragePVName(u),
     labels |-> [k \in {"name", "user", "domain", "server"} |->
                    CASE k = "name" -> GetStoragePVName(u)
                      [] k = "user" -> u.UserID
                      [] k = "domain" -> u.Domain
                      [] k = "server" -> <<"s">>]]

\* the volume and the claim of the user's storage are built
GetTargetStorageCall(i) ==
    /\ user[i] # <<>>
    /\ storage[i] = <<>>
    /\ storage' = [storage EXCEPT ![i] = <<[pv |-> GetTargetStoragePV(user[i][1]),
                                            pvc |-> GetTargetStoragePVC(user[i][1])]>>]
    /\ UNCHANGED <<sigstate, userID, user, pvName, fillvars, cachevars>>

InitUsers ==
    /\ NoSignals
    /\ userID \in [UserSlots -> UserIDs]
    /\ user = [i \in UserSlots |-> <<>>]
    /\ pvName = [i \in UserSlots |-> <<>>]
    /\ storage = [i \in UserSlots |-> <<>>]
    /\ NoFill
    /\ NoCache

NextUsers ==
    \/ \E i \in UserSlots : NewUserCall(i)
    \/ \E i \in UserSlots : GetStoragePVNameCall(i)
    \/ \E i \in UserSlots : GetTargetStorageCall(i)

SpecUsers == InitUsers /\ [][NextUsers]_vars

\* C20: two distinct user identifiers never yield the same user string, so
\* never the same storage volume name or storage label selector.
C20_NamesCollisionFree ==
    \A i, j \in UserSlots :
        userID[i] # userID[j] /\ pvName[i] # <<>> /\ pvName[j] # <<>> =>
            /\ GetUserString(user[i][1]) # GetUserString(user[j][1])
            /\ pvName[i] # pvName[j]
            /\ GetStorageListOptions(user[i][1]) # GetStorageListOptions(user[j][1])

\* ---- extraction of files from a pod (package managed) -------------------
\* The content of a file or buffer is a sequence of runs: [b |-> x, n |-> k]
\* stands for k times the byte x.  Adjacent runs have different bytes, so
\* equal contents have equal representations.

Pods == {"A", "B"}                \* the Pod values in use
FP == "A"                         \* the Pod value fillAllTmpFiles is called on

Keys == {"jupyter", "ssh"}        \* annotation keys of the pod

Run(x, k) == [b |-> x, n |-> k]

FileLens == {1} \cup ((tokenByteLimit - 1)..(tokenByteLimit + MaxOver))

\* the files of length k a pod may write: one byte repeated, or with another
\* last byte
ContentsOfLen(k) ==
    {<<Run("x", k)>>} \cup (IF k > 1 THEN {<<Run("x", k - 1), Run("y", 1)>>} ELSE {})

Contents == UNION {ContentsOfLen(k) : k \in FileLens}

\* what Client.PodExec hands back: an error, or the standard output of cat
\* (empty when the file does not exist yet)
ExecResults ==
    {[err |-> TRUE, stdout |-> <<>>]} \cup
    {[err |-> FALSE, stdout |-> c] : c \in Contents \cup {<<>>}}

RECURSIVE BufLen(_)
\* bytes.Buffer.Len
BufLen(c) == IF c = <<>> THEN 0 ELSE c[1].n + BufLen(Tail(c))

RECURSIVE BufRead(_, _)
\* bytes.Buffer.Read into a slice of k bytes: the first k bytes
BufRead(c, k) ==
    IF k = 0 \/ c = <<>> THEN <<>>
    ELSE IF c[1].n <= k THEN <<c[1]>> \o BufRead(Tail(c), k - c[1].n)
    ELSE <<Run(c[1].b, k)>>

RECURSIVE ByteAt(_, _)
\* the i-th byte of a content
ByteAt(c, i) == IF i <= c[1].n THEN c[1].b ELSE ByteAt(Tail(c), i - c[1].n)

\* Pod.getTmpFile without the byte limit
getTmpFileNoLimit(o) ==
    IF o.err THEN [value |-> <<>>, err |-> <<"exec">>]
    ELSE IF BufLen(o.stdout) = 0 THEN [value |-> <<>>, err |-> <<"empty">>]
    ELSE [value |-> o.stdout, err |-> <<>>]

\* Pod.getTmpFile, given what PodExec returned
getTmpFile(o) ==
    IF o.err THEN [value |-> <<>>, err |-> <<"exec">>]
    ELSE IF BufLen(o.stdout) = 0 THEN [value |-> <<>>, err |-> <<"empty">>]
    ELSE IF BufLen(o.stdout) < tokenByteLimit
         THEN [value |-> o.stdout, err |-> <<>>]
         ELSE [value |-> BufRead(o.stdout, tokenByteLimit), err |-> <<>>]

\* m[k] = v on a Go map
MapSet(m, k, v) == [x \in DOMAIN m \cup {k} |-> IF x = k THEN v ELSE m[x]]

\* the orders in which range may visit the elements of S
Orders(S) ==
    {q \in [1..Cardinality(S) -> S] : \A i, j \in 1..Cardinality(S) : q[i] = q[j] => i = j}

\* p.cache.tokens[key], err = p.getTmpFile(key), with its history
TokenAssign(key, o) ==
    LET r == getTmpFile(o) IN
    /\ cache' = [cache EXCEPT ![FP].tokens = MapSet(@, key, r.value)]
    /\ ferr' = r.err
    /\ nattempt' = [nattempt EXCEPT ![key] = @ + 1]
    /\ succAt' = [succAt EXCEPT ![key] = IF r.err = <<>> /\ @ = 0 THEN nattempt[key] + 1 ELSE @]
    /\ firstGood' = [firstGood EXCEPT ![key] = IF r.err = <<>> /\ succAt[key] = 0
                                                 THEN r.value ELSE @]
    /\ lastRead' = IF r.err = <<>> THEN <<o.stdout, r.value>> ELSE lastRead

\* the loop over the annotations that collects toCopy
FillCall ==
    /\ fpc = "call"
    /\ \E q \in Orders({k \in DOMAIN annotations : annotations[k] = "copyForFrontend"}) :
          toCopy' = q
    /\ fidx' = 1
    /\ fpc' = "key"
    /\ UNCHANGED <<sigstate, uservars, cachevars, annotations, oneTry, fi, ferr, nattempt,
                   nsleep, nlog, succAt, firstGood, lastRead>>

\* for _, key := range toCopy { var err error; if oneTry ...
FillKey ==
    /\ fpc = "key"
    /\ IF fidx > Len(toCopy)
       THEN /\ fpc' = "returned"
            /\ UNCHANGED <<ferr, fi>>
       ELSE /\ ferr' = <<>>
            /\ IF oneTry
               THEN fpc' = "once" /\ UNCHANGED fi
               ELSE fpc' = "loop" /\ fi' = 0
    /\ UNCHANGED <<sigstate, uservars, cachevars, annotations, oneTry, toCopy, fidx,
                   nattempt, nsleep, nlog, succAt, firstGood, lastRead>>

\* the oneTry branch: one read, a failure is printed
FillOnce(o) ==
    /\ fpc = "once"
    /\ TokenAssign(toCopy[fidx], o)
    /\ nlog' = [nlog EXCEPT ![toCopy[fidx]] = IF ferr' # <<>> THEN @ + 1 ELSE @]
    /\ fidx' = fidx + 1
    /\ fpc' = "key"
    /\ UNCHANGED <<sigstate, uservars, fileAt, pname, files, pop, ppc, perr, pinfo, buf, nops,
                   after, lastWriter, annotations, oneTry, toCopy, fi, nsleep>>

\* for i := 0; i < 10; i++: the loop condition
FillLoop ==
    /\ fpc = "loop"
    /\ fpc' = IF fi < MaxAttempts THEN "try" ELSE "after"
    /\ UNCHANGED <<sigstate, uservars, cachevars, annotations, oneTry, toCopy, fidx, fi,
                   ferr, nattempt, nsleep, nlog, succAt, firstGood, lastRead>>

\* the retry loop going on after a successful read
FillTryNoBreak(o) ==
    /\ fpc = "try"
    /\ TokenAssign(toCopy[fidx], o)
    /\ fpc' = "sleep"
    /\ UNCHANGED <<sigstate, uservars, fileAt, pname, files, pop, ppc, perr, pinfo, buf, nops,
                   after, lastWriter, annotations, oneTry, toCopy, fidx, fi, nsleep, nlog>>

\* the body of the retry loop: the read, then continue or break
FillTry(o) ==
    /\ fpc = "try"
    /\ TokenAssign(toCopy[fidx], o)
    /\ fpc' = IF ferr' # <<>> THEN "sleep" ELSE "after"
    /\ UNCHANGED <<sigstate, uservars, fileAt, pname, files, pop, ppc, perr, pinfo, buf, nops,
                   after, lastWriter, annotations, oneTry, toCopy, fidx, fi, nsleep, nlog>>

\* time.Sleep(time.Second); continue
FillSleep ==
    /\ fpc = "sleep"
    /\ nsleep' = [nsleep EXCEPT ![toCopy[fidx]] = @ + 1]
    /\ fi' = fi + 1
    /\ fpc' = "loop"
    /\ UNCHANGED <<sigstate, uservars, cachevars, annotations, oneTry, toCopy, fidx, ferr,
                   nattempt, nlog, succAt, firstGood, lastRead>>

\* after the retry loop: the last error is printed if no read succeeded
FillAfter ==
    /\ fpc = "after"
    /\ nlog' = [nlog EXCEPT ![toCopy[fidx]] = IF ferr # <<>> THEN @ + 1 ELSE @]
    /\ fidx' = fidx + 1
    /\ fpc' = "key"
    /\ UNCHANGED <<sigstate, uservars, cachevars, annotations, oneTry, toCopy, fi, ferr,
                   nattempt, nsleep, succAt, firstGood, lastRead>>

\* what fillAllTmpFiles hands back to its caller: it has no result parameters
fillAllTmpFilesReturn == <<>>

\* NewPod: the cache of a new Pod value
NewCache == [tokens |-> EmptyMap, otherResourceInfo |-> EmptyMap]

\* the Pod values exist, no operation on their cache file is going on
IdlePods ==
    /\ pname = [t \in Pods |-> "pod"]
    /\ pop = [t \in Pods |-> "none"]
    /\ ppc = [t \in Pods |-> "idle"]
    /\ perr = [t \in Pods |-> <<>>]
    /\ pinfo = [t \in Pods |-> <<>>]
    /\ buf = [t \in Pods |-> <<>>]
    /\ nops = [t \in Pods |-> 0]
    /\ after = [t \in Pods |-> {}]
    /\ lastWriter = 0
    /\ fileAt = [t \in Pods |-> <<>>]

\* fillAllTmpFiles(oneTry) is called on a Pod made by NewPod
InitFill ==
    /\ NoSignals
    /\ NoUsers
    /\ annotations \in [Keys -> {"copyForFrontend", "other"}]
    /\ oneTry \in BOOLEAN
    /\ fpc = "call"
    /\ toCopy = <<>>
    /\ fidx = 1
    /\ fi = 0
    /\ ferr = <<>>
    /\ nattempt = [k \in Keys |-> 0]
    /\ nsleep = [k \in Keys |-> 0]
    /\ nlog = [k \in Keys |-> 0]
    /\ succAt = [k \in Keys |-> 0]
    /\ firstGood = [k \in Keys |-> <<>>]
    /\ lastRead = <<>>
    /\ cache = [t \in Pods |-> NewCache]
    /\ files = [f \in {"pod"} |-> <<>>]
    /\ IdlePods

NextFill ==
    \/ FillCall
    \/ FillKey
    \/ \E o \in ExecResults : FillOnce(o)
    \/ FillLoop
    \/ \E o \in ExecResults : FillTry(o)
    \/ FillSleep
    \/ FillAfter

SpecFill == InitFill /\ [][NextFill]_vars

\* the key fillAllTmpFiles is working on
CurrentKey == IF fidx <= Len(toCopy) THEN {toCopy[fidx]} ELSE {}

\* the keys whose iteration of the loop over toCopy is over
DoneKeys == {toCopy[i] : i \in 1..(IF fpc = "call" THEN 0 ELSE fidx - 1)}

\* C15: populating a new pod (oneTry false), each annotated key is read
\* until the first success or at most 10 times, with a delay after each
\* failure and no read after a success; tokens[key] holds the first
\* successful result and no error is returned.  Refreshing (oneTry true),
\* every annotated key is read exactly once.
C15_RetryBudget ==
    /\ fillAllTmpFilesReturn = <<>>
    /\ \A k \in Keys :
          LET failures == nattempt[k] - (IF succAt[k] > 0 THEN 1 ELSE 0) IN
          /\ nattempt[k] <= (IF oneTry THEN 1 ELSE 10)
          /\ succAt[k] > 0 =>
                /\ nattempt[k] = succAt[k]
                /\ k \in DOMAIN cache[FP].tokens
                /\ cache[FP].tokens[k] = firstGood[k]
          /\ nsleep[k] = IF oneTry THEN 0
                         ELSE failures - (IF fpc = "sleep" /\ k \in CurrentKey THEN 1 ELSE 0)
          /\ k \in DoneKeys =>
                IF oneTry THEN nattempt[k] = 1 ELSE succAt[k] > 0 \/ nattempt[k] = 10
          /\ annotations[k] # "copyForFrontend" => nattempt[k] = 0
    /\ fpc = "returned" =>
          DoneKeys = {k \in Keys : annotations[k] = "copyForFrontend"}

\* the file of a new pod appeared at the sixth read: five delays, six reads,
\* and its content is in tokens
C15_Witness ==
    /\ fpc = "returned"
    /\ ~oneTry
    /\ \E k \in Keys :
          /\ succAt[k] = 6
          /\ nattempt[k] = 6
          /\ nsleep[k] = 5
          /\ cache[FP].tokens[k] = firstGood[k]
          /\ firstGood[k] # <<>>

\* C16: a successful read returns the content unchanged when it has at most
\* 4096 bytes and its first 4096 bytes when it is longer; no value in tokens
\* has more than 4096 bytes.
C16_ByteCeiling ==
    /\ lastRead # <<>> =>
          LET c == lastRead[1]
              r == lastRead[2]
          IN  /\ BufLen(c) <= 4096 => r = c
              /\ BufLen(c) > 4096 =>
                    /\ BufLen(r) = 4096
                    /\ \A i \in 1..4096 : ByteAt(r, i) = ByteAt(c, i)
    /\ \A t \in Pods : \A k \in DOMAIN cache[t].tokens : BufLen(cache[t].tokens[k]) <= 4096

\* a file of more than 4096 bytes whose last byte differs from the others
\* was read, and its first 4096 bytes are in tokens
C16_Witness ==
    /\ lastRead # <<>>
    /\ BufLen(lastRead[1]) > tokenByteLimit
    /\ ByteAt(lastRead[1], BufLen(lastRead[1])) # ByteAt(lastRead[1], 1)
    /\ \E k \in DOMAIN cache[FP].tokens :
          cache[FP].tokens[k] = lastRead[2] /\ BufLen(cache[FP].tokens[k]) = tokenByteLimit

\* C17: a key is in tokens only if a read of it has succeeded; a failed
\* read leaves the key absent.
C17_PresentOnlyIfExtracted ==
    \A k \in DOMAIN cache[FP].tokens : succAt[k] > 0

\* ---- the cache file of a pod (package managed) --------------------------
\* Two Pod values of one pod (the same Object.Name) share one cache file.
\* A nil map and an empty map are both EmptyMap.

\* type podCache struct: its fields, each with its first letter
podCache ==
    <<[name |-> "tokens", initial |-> "t"],
      [name |-> "otherResourceInfo", initial |-> "o"]>>

UpperCase == {"A", "B", "C", "D", "E", "F", "G", "H", "I", "J", "K", "L", "M",
              "N", "O", "P", "Q", "R", "S", "T", "U", "V", "W", "X", "Y", "Z"}

\* encoding/gob transmits the exported fields of a struct only
isSent(f) == f.initial \in UpperCase

SentNames(T) == {T[i].name : i \in {j \in 1..Len(T) : isSent(T[j])}}

\* a gob stream holding one struct value, and a file that is no gob stream
Wire(fields) == [wire |-> TRUE, fields |-> fields]
Garbage == [wire |-> FALSE, fields |-> EmptyMap]

\* gob.Encoder.Encode of a value v of struct type T: a type with fields
\* but no exported field is an error
GobEncode(T, v) ==
    IF Len(T) > 0 /\ SentNames(T) = {}
    THEN [err |-> <<"gob: type has no exported fields">>, bytes |-> Garbage]
    ELSE [err |-> <<>>, bytes |-> Wire([n \in SentNames(T) |-> v[n]])]

\* decoding a map into a map adds its entries
MapMerge(old, new) ==
    [k \in DOMAIN old \cup DOMAIN new |-> IF k \in DOMAIN new THEN new[k] ELSE old[k]]

\* gob.Decoder.Decode of the stream b into the value `into` of struct type
\* T: fields are matched by name with the exported fields of T, and a
\* stream none of whose fields matches is an error
GobDecode(b, T, into) ==
    IF ~b.wire THEN [err |-> <<"gob: bad stream">>, value |-> into]
    ELSE LET matched == SentNames(T) \cap DOMAIN b.fields IN
         IF matched = {} /\ Len(T) > 0 /\ DOMAIN b.fields # {}
         THEN [err |-> <<"gob: type mismatch: no fields matched">>, value |-> into]
         ELSE [err |-> <<>>,
               value |-> [n \in DOMAIN into |->
                             IF n \in matched THEN MapMerge(into[n], b.fields[n])
                             ELSE into[n]]]

\* the caches a Pod value may hold after fillAllTmpFiles and
\* fillOtherResourceInfo
TokenMaps ==
    { EmptyMap,
      [k \in {"jupyter"} |-> <<>>],
      [k \in {"jupyter"} |-> <<Run("x", 1)>>],
      [k \in Keys |-> <<Run("x", 1)>>] }

OtherMaps == {EmptyMap, [k \in {"sshPort"} |-> <<Run("p", 1)>>]}

CacheValues == [tokens : TokenMaps, otherResourceInfo : OtherMaps]

\* what the cache directory may hold for the pod before the program runs:
\* nothing, a file that is no gob stream, or a stream written by a program
\* whose cache type has exported fields
ForeignFiles ==
    { <<>>, <<Garbage>>,
      <<Wire([n \in {"Tokens", "OtherResourceInfo"} |-> [k \in {"jupyter"} |-> <<Run("x", 1)>>]])>> }

\* p.getCacheFile(): the file of the pod in the cache directory
getCacheFile(t) == pname[t]

Ops == {"save", "load", "info"}   \* savePodCache, loadPodCache, GetPodInfo

\* a goroutine calls savePodCache, loadPodCache or GetPodInfo on Pod value t
OpCall(t, op) ==
    /\ ppc[t] \in {"idle", "done"}
    /\ nops[t] < MaxOps
    /\ nops' = [nops EXCEPT ![t] = @ + 1]
    /\ pop' = [pop EXCEPT ![t] = op]
    /\ ppc' = [ppc EXCEPT ![t] = IF op = "save" THEN "encode" ELSE "open"]
    /\ perr' = [perr EXCEPT ![t] = <<>>]
    /\ pinfo' = [pinfo EXCEPT ![t] = <<>>]
    /\ buf' = [buf EXCEPT ![t] = <<>>]
    /\ after' = [after EXCEPT ![t] = {u \in Pods : pop[u] = "save" /\ ppc[u] = "done"}]
    /\ fileAt' = [fileAt EXCEPT ![t] = files[getCacheFile(t)]]
    /\ UNCHANGED <<sigstate, uservars, fillvars, cache, pname, files, lastWriter>>

\* savePodCache failing after it has removed the cache file
SaveEncodeRemoving(t) ==
    /\ ppc[t] = "encode"
    /\ perr' = [perr EXCEPT ![t] = GobEncode(podCache, cache[t]).err]
    /\ ppc' = [ppc EXCEPT ![t] = "done"]
    /\ files' = [files EXCEPT ![getCacheFile(t)] = <<>>]
    /\ UNCHANGED <<sigstate, uservars, fillvars, cache, pname, pop, pinfo, buf, nops,
                   after, lastWriter, fileAt>>

\* savePodCache: err := e.Encode(p.cache); if err != nil { return err }
SaveEncode(t) ==
    /\ ppc[t] = "encode"
    /\ LET enc == GobEncode(podCache, cache[t]) IN
       IF enc.err # <<>>
       THEN /\ perr' = [perr EXCEPT ![t] = enc.err]
            /\ ppc' = [ppc EXCEPT ![t] = "done"]
            /\ UNCHANGED buf
       ELSE /\ buf' = [buf EXCEPT ![t] = <<enc.bytes>>]
            /\ ppc' = [ppc EXCEPT ![t] = "remove"]
            /\ UNCHANGED perr
    /\ UNCHANGED <<sigstate, uservars, fileAt, fillvars, cache, pname, files, pop, pinfo, nops,
                   after, lastWriter>>

\* savePodCache: os.Remove(p.getCacheFile()); a file that does not exist is
\* no error, another failure (fails) is returned.  Encode fails for every
\* podCache, so no behaviour gets here, nor to WriteFile.
SaveRemove(t, fails) ==
    /\ ppc[t] = "remove"
    /\ IF fails
       THEN /\ perr' = [perr EXCEPT ![t] = <<"remove">>]
            /\ ppc' = [ppc EXCEPT ![t] = "done"]
            /\ UNCHANGED files
       ELSE /\ files' = [files EXCEPT ![getCacheFile(t)] = <<>>]
            /\ ppc' = [ppc EXCEPT ![t] = "write"]
            /\ UNCHANGED perr
    /\ UNCHANGED <<sigstate, uservars, fileAt, fillvars, cache, pname, pop, pinfo, buf, nops,
                   after, lastWriter>>

\* savePodCache: ioutil.WriteFile(p.getCacheFile(), b.Bytes(), 0600)
SaveWrite(t, fails) ==
    /\ ppc[t] = "write"
    /\ ppc' = [ppc EXCEPT ![t] = "done"]
    /\ IF fails
       THEN /\ perr' = [perr EXCEPT ![t] = <<"write">>]
            /\ UNCHANGED <<files, lastWriter>>
       ELSE /\ files' = [files EXCEPT ![getCacheFile(t)] = buf[t]]
            /\ lastWriter' = t
            /\ UNCHANGED perr
    /\ UNCHANGED <<sigstate, uservars, fileAt, fillvars, cache, pname, pop, pinfo, buf, nops, after>>

\* where loadPodCache returns to
AfterLoad(t) == IF pop[t] = "info" THEN "info" ELSE "done"

\* loadPodCache: file, err := os.Open(p.getCacheFile()); if err != nil { return err }
LoadOpen(t) ==
    /\ ppc[t] = "open"
    /\ IF files[getCacheFile(t)] = <<>>
       THEN /\ perr' = [perr EXCEPT ![t] = <<"file does not exist">>]
            /\ ppc' = [ppc EXCEPT ![t] = AfterLoad(t)]
            /\ UNCHANGED buf
       ELSE /\ buf' = [buf EXCEPT ![t] = files[getCacheFile(t)]]
            /\ ppc' = [ppc EXCEPT ![t] = "decode"]
            /\ UNCHANGED perr
    /\ UNCHANGED <<sigstate, uservars, fileAt, fillvars, cache, pname, files, pop, pinfo, nops,
                   after, lastWriter>>

\* loadPodCache: err = d.Decode(p.cache); return err
LoadDecode(t) ==
    /\ ppc[t] = "decode"
    /\ LET dec == GobDecode(buf[t][1], podCache, cache[t]) IN
       /\ perr' = [perr EXCEPT ![t] = dec.err]
       /\ cache' = [cache EXCEPT ![t] = dec.value]
    /\ ppc' = [ppc EXCEPT ![t] = AfterLoad(t)]
    /\ UNCHANGED <<sigstate, uservars, fileAt, fillvars, pname, files, pop, pinfo, buf, nops,
                   after, lastWriter>>

\* GetPodInfo handing out the cache whatever loadPodCache returned
InfoReturnIgnoringError(t) ==
    /\ ppc[t] = "info"
    /\ pinfo' = [pinfo EXCEPT ![t] =
                    <<[PodName |-> pname[t],
                       Tokens |-> cache[t].tokens,
                       OtherResourceInfo |-> cache[t].otherResourceInfo]>>]
    /\ ppc' = [ppc EXCEPT ![t] = "done"]
    /\ UNCHANGED <<sigstate, uservars, fileAt, fillvars, cache, pname, files, pop, perr, buf, nops,
                   after, lastWriter>>

\* GetPodInfo after loadPodCache: the error is printed, or the cache is
\* copied into the PodInfo, which is returned
InfoReturn(t) ==
    /\ ppc[t] = "info"
    /\ pinfo' = [pinfo EXCEPT ![t] =
                    <<[PodName |-> pname[t],
                       Tokens |-> IF perr[t] # <<>> THEN EmptyMap ELSE cache[t].tokens,
                       OtherResourceInfo |->
                           IF perr[t] # <<>> THEN EmptyMap ELSE cache[t].otherResourceInfo]>>]
    /\ ppc' = [ppc EXCEPT ![t] = "done"]
    /\ UNCHANGED <<sigstate, uservars, fileAt, fillvars, cache, pname, files, pop, perr, buf, nops,
                   after, lastWriter>>

InitCache ==
    /\ NoSignals
    /\ NoUsers
    /\ NoFill
    /\ cache \in [Pods -> CacheValues]
    /\ files \in [{"pod"} -> ForeignFiles]
    /\ IdlePods

NextCache ==
    \/ \E t \in Pods : \E op \in Ops : OpCall(t, op)
    \/ \E t \in Pods : SaveEncode(t)
    \/ \E t \in Pods : LoadOpen(t)
    \/ \E t \in Pods : LoadDecode(t)
    \/ \E t \in Pods : InfoReturn(t)

SpecCache == InitCache /\ [][NextCache]_vars

\* the cache has something in it
Populated(c) == DOMAIN c.tokens # {} \/ DOMAIN c.otherResourceInfo # {}

\* C14: savePodCache of a populated cache followed by loadPodCache on a Pod
\* value of the same name: both succeed, and the loaded tokens and
\* otherResourceInfo equal the saved ones.
C14_RoundTrip ==
    \A sv, ld \in Pods :
        /\ pop[sv] = "save" /\ ppc[sv] = "done" /\ Populated(cache[sv])
        /\ pop[ld] = "load" /\ ppc[ld] = "done" /\ sv \in after[ld]
        /\ getCacheFile(sv) = getCacheFile(ld)
        => /\ perr[sv] = <<>>
           /\ perr[ld] = <<>>
           /\ cache[ld].tokens = cache[sv].tokens
           /\ cache[ld].otherResourceInfo = cache[sv].otherResourceInfo

\* C18: GetPodInfo on a pod without a cache file completes and returns the
\* pod's info with empty tokens and otherResourceInfo, and the read neither
\* writes nor removes anything in the cache directory.
C18_MissIsNotFailure ==
    /\ [](\A t \in Pods :
             /\ pop[t] = "info" /\ ppc[t] = "open" => ENABLED LoadOpen(t)
             /\ pop[t] = "info" /\ ppc[t] = "info" => ENABLED InfoReturn(t)
             /\ pop[t] = "info" /\ ppc[t] = "done" /\ files[getCacheFile(t)] = <<>> =>
                   /\ pinfo[t] # <<>>
                   /\ pinfo[t][1].PodName = pname[t]
                   /\ pinfo[t][1].Tokens = EmptyMap
                   /\ pinfo[t][1].OtherResourceInfo = EmptyMap)
    /\ [][\A t \in Pods :
             pop[t] \in {"load", "info"} /\ ppc'[t] # ppc[t] /\ ppc[t] \notin {"idle", "done"}
                 => files' = files]_vars

\* GetPodInfo returned on a Pod value whose cache in memory is populated
\* while the pod has no cache file
C18_Witness ==
    \E t \in Pods :
        /\ pop[t] = "info" /\ ppc[t] = "done"
        /\ files[getCacheFile(t)] = <<>>
        /\ Populated(cache[t])
        /\ pinfo[t] # <<>>
        /\ pinfo[t][1].Tokens = EmptyMap

\* C19: two savePodCache calls for one pod name that run concurrently both
\* succeed, and the cache file then holds the complete cache of the call
\* that wrote last.
C19_LastWriterWins ==
    (\A t \in Pods : pop[t] = "save" /\ ppc[t] = "done" /\ after[t] = {}) =>
        /\ \A t \in Pods : perr[t] = <<>>
        /\ lastWriter \in Pods
        /\ files["pod"] # <<>>
        /\ LET dec == GobDecode(files["pod"][1], podCache, NewCache) IN
              dec.err = <<>> /\ dec.value = cache[lastWriter]

\* ---- the log of fillAllTmpFiles -----------------------------------------

\* C21: populating a new pod, every failed read is logged by itself: a key
\* whose file is readable only at the k-th read (k <= 10) has k - 1 log
\* entries although the extraction succeeds in the end.
C21_EveryFailureLogged ==
    ~oneTry =>
        \A k \in DoneKeys :
            succAt[k] > 0 /\ succAt[k] <= 10 => nlog[k] = succAt[k] - 1

\* ---- a load or a failed save next to the cache file ---------------------

\* the operation of Pod value t is going on
InOp(t) == ppc[t] \notin {"idle", "done"}

\* the cache a gob stream written for a pod holds
CacheIn(b) == [tokens |-> b.fields.Tokens, otherResourceInfo |-> b.fields.OtherResourceInfo]

C23_FailedSaveKeepsFile ==
    \A t \in Pods :
        pop[t] = "save" /\ ppc[t] = "done" /\ perr[t] # <<>> /\ fileAt[t] # <<>> =>
            files[getCacheFile(t)] = fileAt[t]

\* savePodCache returned an error for a pod that had a cache file, and the
\* file is there as before
C23_Witness ==
    \E t \in Pods :
        /\ pop[t] = "save" /\ ppc[t] = "done"
        /\ perr[t] # <<>>
        /\ fileAt[t] # <<>> /\ fileAt[t][1].wire
        /\ files[getCacheFile(t)] = fileAt[t]

\* ---- the labels of a user's storage -------------------------------------

\* C24: the volume and the claim of a user's storage have the same name
\* and the same name label, their user and domain labels are the user's
\* Name and Domain, and both are matched by the user's own label selector
\* and by the storage selector.
C24_StorageLabelsConsistent ==
    \A i \in UserSlots :
        storage[i] # <<>> =>
            LET u == user[i][1]
                pv == storage[i][1].pv
                pvc == storage[i][1].pvc
            IN  /\ pv.name = pvc.name
                /\ pv.labels["name"] = pvc.labels["name"]
                /\ pv.labels["user"] = u.Name /\ pvc.labels["user"] = u.Name
                /\ pv.labels["domain"] = u.Domain /\ pvc.labels["domain"] = u.Domain
                /\ SelectorMatches(GetListOptions(u), pv.labels)
                /\ SelectorMatches(GetListOptions(u), pvc.labels)
                /\ SelectorMatches(StorageSelector(u), pv.labels)
                /\ SelectorMatches(StorageSelector(u), pvc.labels)

====
